---- MODULE Spec2Model ----
(***************************************************************************)
(* Model of the fix-apply-and-verify protocol of codecraft-ai              *)
(* (src/src/agents/writer.py, WriterAgent.apply_fix_and_verify).           *)
(*                                                                         *)
(* The file system is a map from paths to stored contents.  A content is   *)
(* a sequence of characters.  The platform is POSIX (the program is the    *)
(* entry point of a GitHub Action): os.linesep is a single line feed, so   *)
(* text mode reads and writes every character unchanged except a carriage  *)
(* return, which it reads as a line feed.  The characters are therefore    *)
(* the tokens "LF" (which stands for every character that text mode        *)
(* leaves alone) and "CR".                                                 *)
(*                                                                         *)
(* One invocation of apply_fix_and_verify is a sequence of steps, one per  *)
(* interaction with the environment (stat, read, write, child process,     *)
(* restoring write); pc is the position of the invocation.  The outcome of *)
(* each interaction is chosen by the environment.  The verification        *)
(* command is an oracle: it is taken not to write the files itself.        *)
(***************************************************************************)
EXTENDS Naturals, Sequences, FiniteSets, TLC

\* ---------------------------------------------------------------- bounds
MaxLen == 2

\* ------------------------------------------------------------- universes
Paths == {"calc.py", "util.py"}
Chars == {"LF", "CR"}
None == "None"
NoCode == <<"None">>
NoFile == <<"NoFile">>

RECURSIVE SeqsUpTo(_)
SeqsUpTo(n) ==
    IF n = 0 THEN {<<>>}
    ELSE LET S == SeqsUpTo(n - 1)
         IN  S \cup {Append(s, c) : s \in {t \in S : Len(t) = n - 1}, c \in Chars}

Contents == SeqsUpTo(MaxLen)
Stderrs == {"", "AssertionError"}
TestCommands == {None, "exit 1"}
ReturnCodes == {0, 1, 2}

\* ------------------------------------------------------- error messages
ErrNotExist == "File does not exist: "
ErrBackup == "Failed to backup file: "
ErrWrite == "Failed to write new code: "
ErrRevert == "Failed to revert file after test failure: "
ErrTimeout == "Tests timed out after 60 seconds"
ErrUnexpected == "Unexpected error during test execution: "

\* ----------------------------------------------------- text-mode file IO
\* open(path, "r", encoding="utf-8").read(): universal newlines, every
\* CR LF pair and every lone CR is read as one LF.
RECURSIVE ReadText(_)
ReadText(b) ==
    IF b = <<>> THEN <<>>
    ELSE IF Head(b) = "CR"
         THEN IF Len(b) >= 2 /\ b[2] = "LF"
              THEN <<"LF">> \o ReadText(SubSeq(b, 3, Len(b)))
              ELSE <<"LF">> \o ReadText(Tail(b))
         ELSE <<Head(b)>> \o ReadText(Tail(b))

\* f.write(s) on a file opened in text mode: every LF is written as
\* os.linesep, which is LF itself on POSIX.
WriteText(s) == s

\* A plausible slip: the file opened with mode "a" instead of "w".
OpenWriteAppend(old, s) == old \o WriteText(s)

\* with open(path, "w", encoding="utf-8") as f: f.write(s), when it
\* succeeds: the open truncates the file, the write stores s.
OpenWrite(old, s) == WriteText(s)

\* A plausible slip: the existence check left out.
FileExistsAlways(f, p) == TRUE

\* Path(p).exists()
FileExists(f, p) == f[p] # NoFile

Prefixes(s) == {SubSeq(s, 1, n) : n \in 0..Len(s)}

\* A plausible slip: the handler of a failed write removes the file it
\* could not write.
FailedWriteRemoves(old, s) == {old, NoFile}

\* What a failed open(path, "w") / write / close can leave on disk: the
\* old content (open failed), or a prefix of the new content (the open
\* truncated the file and the write or the flush failed part-way).
FailedWriteLeaves(old, s) == {old} \cup Prefixes(WriteText(s))

\* os.getenv(name, default)
Getenv(value, default) == IF value = None THEN default ELSE value

\* ------------------------------------------- the response of the generator
\* (WriterAgent.analyze_and_fix).  A text is a sequence of tokens: one
\* token per character, except that "FENCE" stands for three backticks
\* and the words "json", "file_path", "new_code", "issue" and the path
\* names stand for their letters.
QUOTE == "QUOTE"
BSLASH == "BSLASH"
FENCE == "FENCE"
Whitespace == {"SP", "LF", "CR", "TAB"}
ControlChars == {"LF", "CR", "TAB"}

\* s[from..], s[..upto]
Drop(s, k) == SubSeq(s, k + 1, Len(s))
Take(s, k) == SubSeq(s, 1, k)

\* str.strip()
RECURSIVE LStrip(_)
LStrip(s) == IF s # <<>> /\ Head(s) \in Whitespace THEN LStrip(Tail(s)) ELSE s
RECURSIVE RStrip(_)
RStrip(s) ==
    IF s # <<>> /\ s[Len(s)] \in Whitespace THEN RStrip(Take(s, Len(s) - 1)) ELSE s
Strip(s) == RStrip(LStrip(s))

\* str.find(pat): the first index at which pat occurs in s, 0 when it does
\* not occur (Python: -1).
OccursAt(s, pat, i) == i + Len(pat) - 1 <= Len(s) /\ SubSeq(s, i, i + Len(pat) - 1) = pat
Find(s, pat) ==
    IF \E i \in 1..Len(s) : OccursAt(s, pat, i)
    THEN CHOOSE i \in 1..Len(s) :
            OccursAt(s, pat, i) /\ \A j \in 1..(i - 1) : ~OccursAt(s, pat, j)
    ELSE 0

\* str.rfind(pat), 0 when pat does not occur
RFind(s, pat) ==
    IF \E i \in 1..Len(s) : OccursAt(s, pat, i)
    THEN CHOOSE i \in 1..Len(s) :
            OccursAt(s, pat, i) /\ \A j \in (i + 1)..Len(s) : ~OccursAt(s, pat, j)
    ELSE 0

\* pat in s
Contains(s, pat) == Find(s, pat) # 0

\* s.split(pat)[0]: what stands before the first pat, all of s without one
SplitFirst(s, pat) == IF Contains(s, pat) THEN Take(s, Find(s, pat) - 1) ELSE s

\* s.split(pat)[1], for s that contains pat: what stands between the first
\* pat and the next one
SplitSecond(s, pat) == SplitFirst(Drop(s, Find(s, pat) + Len(pat) - 1), pat)

FenceJson == <<FENCE, "json">>
Fence == <<FENCE>>

\* Lines 113-119: the text between the code-fence markers.
StripFence(text) ==
    IF Contains(text, FenceJson)
    THEN Strip(SplitFirst(SplitSecond(text, FenceJson), Fence))
    ELSE IF Contains(text, Fence)
         THEN Strip(SplitFirst(SplitSecond(text, Fence), Fence))
         ELSE text

\* Lines 122-125: the text from the first "[" to the last "]".
TrimBrackets(text) ==
    IF Contains(text, <<"[">>) /\ Contains(text, <<"]">>)
    THEN SubSeq(text, Find(text, <<"[">>), RFind(text, <<"]">>))
    ELSE text

\* A plausible slip: the string flag left out of the line-feed test, so
\* that a line feed between the tokens is rewritten too.
ScanStepEveryNewline(char, in_string, escape) ==
    IF escape THEN [out |-> <<char>>, in_string |-> in_string, escape |-> FALSE]
    ELSE IF char = BSLASH THEN [out |-> <<char>>, in_string |-> in_string, escape |-> TRUE]
    ELSE IF char = QUOTE THEN [out |-> <<char>>, in_string |-> ~in_string, escape |-> FALSE]
    ELSE IF char = "LF" THEN [out |-> <<BSLASH, "n">>, in_string |-> in_string, escape |-> FALSE]
    ELSE [out |-> <<char>>, in_string |-> in_string, escape |-> FALSE]

\* A plausible slip: the quote tested before the escape flag, so that an
\* escaped quote toggles the string flag.
ScanStepQuoteFirst(char, in_string, escape) ==
    IF char = QUOTE THEN [out |-> <<char>>, in_string |-> ~in_string, escape |-> FALSE]
    ELSE IF escape THEN [out |-> <<char>>, in_string |-> in_string, escape |-> FALSE]
    ELSE IF char = BSLASH THEN [out |-> <<char>>, in_string |-> in_string, escape |-> TRUE]
    ELSE IF in_string /\ char = "LF"
         THEN [out |-> <<BSLASH, "n">>, in_string |-> in_string, escape |-> FALSE]
    ELSE [out |-> <<char>>, in_string |-> in_string, escape |-> FALSE]

\* A plausible slip: the line-feed test left out altogether.
ScanStepNoRepair(char, in_string, escape) ==
    IF escape THEN [out |-> <<char>>, in_string |-> in_string, escape |-> FALSE]
    ELSE IF char = BSLASH THEN [out |-> <<char>>, in_string |-> in_string, escape |-> TRUE]
    ELSE IF char = QUOTE THEN [out |-> <<char>>, in_string |-> ~in_string, escape |-> FALSE]
    ELSE [out |-> <<char>>, in_string |-> in_string, escape |-> FALSE]

\* Lines 135-162: one turn of the loop, for the character char in the
\* state (in_string, escape): what is appended to fixed, and the flags
\* afterwards.
ScanStep(char, in_string, escape) ==
    IF escape THEN [out |-> <<char>>, in_string |-> in_string, escape |-> FALSE]
    ELSE IF char = BSLASH THEN [out |-> <<char>>, in_string |-> in_string, escape |-> TRUE]
    ELSE IF char = QUOTE THEN [out |-> <<char>>, in_string |-> ~in_string, escape |-> FALSE]
    ELSE IF in_string /\ char = "LF"
         THEN [out |-> <<BSLASH, "n">>, in_string |-> in_string, escape |-> FALSE]
    ELSE [out |-> <<char>>, in_string |-> in_string, escape |-> FALSE]

\* Lines 134-162: the loop over the characters lo..hi of text, entered in
\* the state (in_string, escape): what it appends to fixed, and the flags
\* afterwards.  (The range is run in two halves, which keeps the
\* evaluation shallow.)
RECURSIVE Scan(_, _, _, _, _)
Scan(text, lo, hi, in_string, escape) ==
    IF lo > hi THEN [out |-> <<>>, in_string |-> in_string, escape |-> escape]
    ELSE IF lo = hi THEN ScanStep(text[lo], in_string, escape)
    ELSE LET mid == (lo + hi) \div 2
             first == Scan(text, lo, mid, in_string, escape)
             rest == Scan(text, mid + 1, hi, first.in_string, first.escape)
         IN  [out |-> first.out \o rest.out,
              in_string |-> rest.in_string,
              escape |-> rest.escape]

\* Lines 129-164: fixed, joined, for the whole text.
Sanitize(text) == Scan(text, 1, Len(text), FALSE, FALSE).out

\* ---------------------------------------------------------- json.loads
\* Values: a string is its decoded tokens, an array its elements, an
\* object (a dict) its items in insertion order.
JStr(s) == [t |-> "str", v |-> s]
JArr(xs) == [t |-> "arr", v |-> xs]
JObj(items) == [t |-> "obj", v |-> items]
Item(k, val) == [k |-> k, v |-> val]
PyNone == [t |-> "none", v |-> <<>>]
\* json.JSONDecodeError
JSONDecodeError == [t |-> "error", v |-> <<>>]

Fail == [ok |-> FALSE, val |-> JSONDecodeError, pos |-> 0]
Ok(val, pos) == [ok |-> TRUE, val |-> val, pos |-> pos]

\* The escapes of a JSON string over the tokens used here.  (No text that
\* is parsed here has a word token after a backslash.)
Escapes == [c \in {QUOTE, BSLASH, "n", "t", "r"} |->
               CASE c = QUOTE -> QUOTE
                 [] c = BSLASH -> BSLASH
                 [] c = "n" -> "LF"
                 [] c = "t" -> "TAB"
                 [] c = "r" -> "CR"]

RECURSIVE SkipWs(_, _)
SkipWs(text, i) ==
    IF i <= Len(text) /\ text[i] \in Whitespace THEN SkipWs(text, i + 1) ELSE i

\* dict[k] = val
DictSet(items, k, val) ==
    IF \E i \in 1..Len(items) : items[i].k = k
    THEN [i \in 1..Len(items) |-> IF items[i].k = k THEN Item(k, val) ELSE items[i]]
    ELSE Append(items, Item(k, val))

\* dict.get(k)
DictGet(items, k) ==
    IF \E i \in 1..Len(items) : items[i].k = k
    THEN (items[CHOOSE i \in 1..Len(items) : items[i].k = k]).v
    ELSE PyNone

\* The body of a string from position i on.  strict: a control character
\* inside a string is an error (json.loads, strict=True, the default);
\* otherwise it stands for itself.
RECURSIVE StrBody(_, _, _, _)
StrBody(text, i, acc, strict) ==
    IF i > Len(text) THEN Fail
    ELSE IF text[i] = QUOTE THEN Ok(JStr(acc), i + 1)
    ELSE IF text[i] = BSLASH
         THEN IF i + 1 <= Len(text) /\ text[i + 1] \in DOMAIN Escapes
              THEN StrBody(text, i + 2, Append(acc, Escapes[text[i + 1]]), strict)
              ELSE Fail
    ELSE IF strict /\ text[i] \in ControlChars THEN Fail
    ELSE StrBody(text, i + 1, Append(acc, text[i]), strict)

RECURSIVE ParseValue(_, _, _), Elements(_, _, _, _), Members(_, _, _, _)
ParseValue(text, i, strict) ==
    IF i > Len(text) THEN Fail
    ELSE IF text[i] = QUOTE THEN StrBody(text, i + 1, <<>>, strict)
    ELSE IF text[i] = "["
         THEN LET j == SkipWs(text, i + 1)
              IN  IF j <= Len(text) /\ text[j] = "]" THEN Ok(JArr(<<>>), j + 1)
                  ELSE Elements(text, j, <<>>, strict)
    ELSE IF text[i] = "{"
         THEN LET j == SkipWs(text, i + 1)
              IN  IF j <= Len(text) /\ text[j] = "}" THEN Ok(JObj(<<>>), j + 1)
                  ELSE Members(text, j, <<>>, strict)
    ELSE Fail

Elements(text, i, acc, strict) ==
    LET r == ParseValue(text, i, strict)
        k == SkipWs(text, r.pos)
    IN  IF ~r.ok \/ k > Len(text) THEN Fail
        ELSE IF text[k] = "," THEN Elements(text, SkipWs(text, k + 1), Append(acc, r.val), strict)
        ELSE IF text[k] = "]" THEN Ok(JArr(Append(acc, r.val)), k + 1)
        ELSE Fail

Members(text, i, acc, strict) ==
    IF i > Len(text) \/ text[i] # QUOTE THEN Fail
    ELSE LET key == StrBody(text, i + 1, <<>>, strict)
             c == SkipWs(text, key.pos)
             r == ParseValue(text, SkipWs(text, c + 1), strict)
             k == SkipWs(text, r.pos)
         IN  IF ~key.ok \/ c > Len(text) THEN Fail
             ELSE IF text[c] # ":" THEN Fail
             ELSE IF ~r.ok \/ k > Len(text) THEN Fail
             ELSE IF text[k] = ","
                  THEN Members(text, SkipWs(text, k + 1), DictSet(acc, key.val.v, r.val), strict)
             ELSE IF text[k] = "}" THEN Ok(JObj(DictSet(acc, key.val.v, r.val)), k + 1)
             ELSE Fail

\* json.loads(text): the value, or JSONDecodeError
Loads(text, strict) ==
    LET r == ParseValue(text, SkipWs(text, 1), strict)
    IN  IF r.ok /\ SkipWs(text, r.pos) > Len(text) THEN r.val ELSE JSONDecodeError

JsonLoads(text) == Loads(text, TRUE)

\* ------------------------------------------ lines 179-197: the unescape pass
\* str.replace(<<BSLASH, c>>, <<by>>)
RECURSIVE Replace(_, _, _)
Replace(s, c, by) ==
    IF s = <<>> THEN <<>>
    ELSE IF Len(s) >= 2 /\ s[1] = BSLASH /\ s[2] = c
         THEN <<by>> \o Replace(Drop(s, 2), c, by)
         ELSE <<Head(s)>> \o Replace(Tail(s), c, by)

\* A plausible slip: the second replace left out.
UnescapeNewlinesOnly(value) == Replace(value, "n", "LF")

\* value.replace('\\n', '\n').replace('\\t', '\t')
Unescape(value) == Replace(Replace(value, "n", "LF"), "t", "TAB")

\* Lines 181-191: the decoded copy of one record.
DecodeFix(fix) ==
    [i \in 1..Len(fix) |->
        IF fix[i].k = <<"new_code">> /\ fix[i].v.t = "str"
        THEN Item(fix[i].k, JStr(Unescape(fix[i].v.v)))
        ELSE fix[i]]

\* Lines 166-201: what analyze_and_fix returns for the outcome of
\* json.loads.  A decode error returns [] (170-173), a value that is not a
\* list returns [] (175-177), and an element that is not a dict raises in
\* fix.items() and again in the handler's fix.get(), which the outer
\* handler turns into [] (199-201).
DecodeFixes(fixes) ==
    IF fixes.t # "arr" THEN <<>>
    ELSE IF \E i \in 1..Len(fixes.v) : fixes.v[i].t # "obj" THEN <<>>
    ELSE [i \in 1..Len(fixes.v) |-> DecodeFix(fixes.v[i].v)]

\* ------------------------------------------- the responses of the generator
\* The JSON text of a value as the prompt asks for it (lines 80-82, 95): no
\* white space between the tokens; raw: line feeds left as they are
\* inside strings, which is what the character scan is there to repair.
EncodeChar(c, raw) ==
    CASE c = QUOTE -> <<BSLASH, QUOTE>>
      [] c = BSLASH -> <<BSLASH, BSLASH>>
      [] c = "LF" -> IF raw THEN <<"LF">> ELSE <<BSLASH, "n">>
      [] c = "TAB" -> <<BSLASH, "t">>
      [] c = "CR" -> <<BSLASH, "r">>
      [] OTHER -> <<c>>

RECURSIVE EncodeChars(_, _)
EncodeChars(s, raw) ==
    IF s = <<>> THEN <<>> ELSE EncodeChar(Head(s), raw) \o EncodeChars(Tail(s), raw)

EncodeString(s, raw) == <<QUOTE>> \o EncodeChars(s, raw) \o <<QUOTE>>

RECURSIVE Dumps(_, _), DumpsElements(_, _), DumpsItems(_, _)
Dumps(val, raw) ==
    CASE val.t = "str" -> EncodeString(val.v, raw)
      [] val.t = "arr" -> <<"[">> \o DumpsElements(val.v, raw) \o <<"]">>
      [] val.t = "obj" -> <<"{">> \o DumpsItems(val.v, raw) \o <<"}">>

DumpsElements(xs, raw) ==
    IF xs = <<>> THEN <<>>
    ELSE Dumps(Head(xs), raw)
            \o (IF Len(xs) > 1 THEN <<",">> ELSE <<>>)
            \o DumpsElements(Tail(xs), raw)

DumpsItems(items, raw) ==
    IF items = <<>> THEN <<>>
    ELSE EncodeString(Head(items).k, raw) \o <<":">> \o Dumps(Head(items).v, raw)
            \o (IF Len(items) > 1 THEN <<",">> ELSE <<>>)
            \o DumpsItems(Tail(items), raw)

TextsUpTo(S, n) == UNION {[1..k -> S] : k \in 0..n}

MaxText == 5
MaxCode == 3
MaxFixes == 2

\* Texts that exercise the character scan.
ScanChars == {QUOTE, BSLASH, "LF", "n", "[", "]"}
ScanTexts == TextsUpTo(ScanChars, MaxText)

\* Texts that exercise the removal of the code fences and the search for
\* the array.
FenceChars == {QUOTE, FENCE, "json", "LF", "[", "]"}
FenceTexts == TextsUpTo(FenceChars, MaxText)

\* A fix record as the prompt asks for it (line 95).
Fix(p, c, i) ==
    JObj(<<Item(<<"file_path">>, JStr(<<p>>)),
           Item(<<"new_code">>, JStr(c)),
           Item(<<"issue">>, JStr(i))>>)

\* One-record responses: every content over CodeChars, with the line
\* feeds escaped or left raw, the array alone or inside a code fence.
CodeChars == {BSLASH, "n", "t", "LF"}
Codes == TextsUpTo(CodeChars, MaxCode)
Issues == {<<"n">>, <<BSLASH, "n">>, <<BSLASH, "t">>}
Fenced(text) == FenceJson \o <<"LF">> \o text \o <<"LF">> \o Fence
RecordTexts ==
    LET plain == {Dumps(JArr(<<Fix("calc.py", c, i)>>), raw) :
                     c \in Codes, i \in Issues, raw \in BOOLEAN}
    IN  plain \cup {Fenced(text) : text \in plain}

Responses == ScanTexts \cup FenceTexts \cup RecordTexts

\* The responses of whole fix commands: arrays of up to MaxFixes records,
\* some without file_path or new_code, and malformed ones: a truncated
\* array, a record outside an array, an array with an element that is
\* not a record.
RunCodes == {<<"LF">>, <<"CR">>}
FixNoPath(c) == JObj(<<Item(<<"new_code">>, JStr(c))>>)
FixNoCode(p) == JObj(<<Item(<<"file_path">>, JStr(<<p>>))>>)
RunFixes ==
    {Fix(p, c, <<"n">>) : p \in Paths, c \in RunCodes}
        \cup {FixNoPath(<<"LF">>), FixNoCode("calc.py")}
FixLists == UNION {[1..k -> RunFixes] : k \in 0..MaxFixes}
RunTexts == {Dumps(JArr(l), FALSE) : l \in FixLists}
MalformedTexts ==
    {Take(text, Len(text) - 1) : text \in RunTexts \ {<<"[", "]">>}}
        \cup {Dumps(r, FALSE) : r \in RunFixes}
        \cup {Dumps(JArr(<<r, JStr(<<"n">>)>>), FALSE) : r \in RunFixes}
RunResponses == RunTexts \cup MalformedTexts
RunFiles == [Paths -> {NoFile, <<"CR">>}]

\* ------------------------------------------------- the GitHub wrapper
\* A dict is a function from its keys to their values; every value of
\* the pull request is written as a string.
EmptyDict == <<>>

\* d.get(k, default)
Get(d, k, default) == IF k \in DOMAIN d THEN d[k] ELSE default

\* d[k] = v
Set(d, k, v) == [x \in DOMAIN d \cup {k} |-> IF x = k THEN v ELSE d[x]]

\* truth value of a string or None
Truthy(v) == v # None /\ v # ""

PrBranch == "fix-branch"

\* github_helper.py lines 193-214: the dict fetch_pr_details returns for
\* a pull request that exists.
FetchedDetails ==
    [number |-> "1", title |-> "t", description |-> "d", state |-> "open",
     author |-> "a", created_at |-> "c", updated_at |-> "u",
     head_ref |-> PrBranch, base_ref |-> "main", commits |-> "1",
     additions |-> "1", deletions |-> "0", changed_files |-> "1",
     url |-> "h", mergeable |-> "True", draft |-> "False"]

\* Details as main.py reads them: an "id" (line 182) and a "head" dict
\* with a "ref" (line 281).
WithId(d) == Set(d, "id", "1")
WithHead(d) == Set(d, "head", [ref |-> PrBranch])

\* The details with which handle_fix_command gets past its step 1.
ValidDetails == {WithId(FetchedDetails), WithHead(WithId(FetchedDetails))}

\* github_helper.py lines 30-760: the methods of GitHubAPIWrapper.
Methods ==
    {"get_repo", "get_repo_info", "get_pr", "fetch_pr_diff",
     "fetch_pr_details", "get_pr_files", "post_comment", "get_pr_comments",
     "post_review_comment", "setup_git_config", "_run_git_command",
     "create_branch", "commit_changes", "push_branch", "push_fix_to_pr",
     "clone_repo", "create_issue", "get_user_info", "verify_token"}

\* main.py line 285: github.push_file(...).  The attribute lookup raises
\* AttributeError when the wrapper has no such method.
PushFile(methods) ==
    IF "push_file" \in methods THEN "pushed" ELSE "AttributeError"

VARIABLES
    fs,              \* path -> stored content, NoFile when the path does not exist
    env_test_command,\* value of the TEST_COMMAND environment variable, None when unset
    pc,              \* position of the invocation
    file_path,       \* argument of the invocation
    new_code,        \* argument of the invocation
    backup_content,  \* local variable of the invocation
    run,             \* how subprocess.run ended: <<"completed", returncode, stderr>>,
                     \* <<"timeout">> or <<"error">>; NotRun before
    result,          \* <<success, error>> once returned, Raised when an exception escaped
    fs_before,       \* history: the file system when the invocation started
    events,          \* history: environment interactions of the invocation, in order
    ran_command,     \* history: command string handed to subprocess.run
    stage,           \* position of the fix command, "off" outside one
    response,        \* history: response.text as the generator returned it
    response_text,   \* local variable of analyze_and_fix
    scan_input,      \* history: response_text when the character scan started
    parsed,          \* analyze_and_fix's local fixes: what json.loads returned
    fixes,           \* what analyze_and_fix returned to the fix command
    fix_index,       \* position of the loop over fixes (1-based)
    applied,         \* history: the positions of the records handed to
                     \* apply_fix_and_verify, in order
    dry_run,         \* context.dry_run
    pr_details,      \* what fetch_pr_details returned, a dict: key -> value
    successful_fixes,\* local list of handle_fix_command
    failed_fixes,    \* local list of handle_fix_command
    failed_before,   \* history: for each entry of failed_fixes, what its
                     \* file held when its fix was applied
    committed,       \* history: path -> new_code of the last fix on it that
                     \* was verified, its content at the start before one
    write_failed,    \* history: a write of the run has failed
    posted,          \* history: the comments posted on the pull request
    pushed,          \* history: the outcomes of the push attempts
    fix_status,      \* output["fix_status"], None when not set
    command_result,  \* <<success, error>> of the ExecutionResult returned
    exec_pc,         \* position of Orchestrator.execute
    command,         \* context.command
    authenticated,   \* history: authenticate has returned True
    handled,         \* history: the handlers execute has invoked
    results,         \* self.results
    returned,        \* history: the results execute has returned
    written,         \* the documents write_output has stored in the output
                     \* file, in order
    pr_exists,       \* the pull request exists and the token can read it
    git_pc,          \* position of push_fix_to_pr
    files,           \* argument of push_fix_to_pr, empty for all changes
    add_index,       \* position of commit_changes' loop over files
    git_log,         \* history: the git commands run, with their outcomes
    push_result      \* what push_fix_to_pr returned

\* the state of the fix command around the invocations
orch_vars == <<stage, response, response_text, scan_input, parsed, fixes,
               fix_index, applied>>

\* the state of the fix command after the loop over the records
cmd_vars == <<dry_run, pr_details, successful_fixes, failed_fixes,
              failed_before, committed, write_failed, posted, pushed,
              fix_status, command_result>>

\* the state of Orchestrator.execute and write_output
exec_vars == <<exec_pc, command, authenticated, handled, results, returned,
               written, pr_exists>>

\* the state of GitHubAPIWrapper.push_fix_to_pr
push_vars == <<git_pc, files, add_index, git_log, push_result>>

\* everything outside one invocation of apply_fix_and_verify
outer_vars == <<orch_vars, cmd_vars, exec_vars, push_vars>>

vars == <<fs, env_test_command, pc, file_path, new_code, backup_content,
          run, result, fs_before, events, ran_command, stage, response,
          response_text, scan_input, parsed, fixes, fix_index, applied,
          dry_run, pr_details, successful_fixes, failed_fixes,
          failed_before, committed, write_failed, posted, pushed,
          fix_status, command_result, exec_pc, command, authenticated,
          handled, results, returned, written, pr_exists, git_pc, files,
          add_index, git_log, push_result>>

NotRun == <<>>
NoResult == <<"none">>
Raised == <<"raised">>

\* handle_fix_command has not reached its loop over the records.
NoFixesYet ==
    /\ successful_fixes = <<>>
    /\ failed_fixes = <<>>
    /\ failed_before = <<>>
    /\ write_failed = FALSE
    /\ posted = <<>>
    /\ pushed = <<>>
    /\ fix_status = None
    /\ command_result = NoResult

\* Orchestrator.execute is not running.
NoExecute ==
    /\ exec_pc = "off"
    /\ command = None
    /\ authenticated = FALSE
    /\ handled = <<>>
    /\ results = <<>>
    /\ returned = <<>>
    /\ written = <<>>
    /\ pr_exists = FALSE

\* push_fix_to_pr is not running.
NoPush ==
    /\ git_pc = "off"
    /\ files = <<>>
    /\ add_index = 0
    /\ git_log = <<>>
    /\ push_result = NoResult

\* No fix command is running: invocations are studied on their own.
NoCommand ==
    /\ stage = "off"
    /\ response = <<>>
    /\ response_text = <<>>
    /\ scan_input = <<>>
    /\ parsed = PyNone
    /\ fixes = <<>>
    /\ fix_index = 0
    /\ applied = <<>>
    /\ dry_run = FALSE
    /\ pr_details = <<>>
    /\ committed = <<>>
    /\ NoFixesYet

Init ==
    /\ fs \in [Paths -> Contents \cup {NoFile}]
    /\ env_test_command \in TestCommands
    /\ pc = "idle"
    /\ file_path = None
    /\ new_code = NoCode
    /\ backup_content = NoCode
    /\ run = NotRun
    /\ result = NoResult
    /\ fs_before = fs
    /\ events = <<>>
    /\ ran_command = None
    /\ NoCommand
    /\ NoExecute
    /\ NoPush

\* history: stored content of the target when the invocation started
Pre == IF file_path = None THEN NoFile ELSE fs_before[file_path]

\* return success, error
Return(success, error) ==
    /\ pc' = "done"
    /\ result' = <<success, error>>

\* The caller takes file_path and new_code from a fix record with
\* fix.get(...), which yields None for a missing key, and invokes
\* apply_fix_and_verify.  Line 216: file_path = Path(file_path) stands
\* outside every try block, and Path(None) raises TypeError.
Invoke(p, c) ==
    /\ pc = "idle"
    /\ file_path' = p
    /\ new_code' = c
    /\ fs_before' = fs
    /\ IF p = None
       THEN /\ pc' = "done"
            /\ result' = Raised
       ELSE /\ pc' = "exists"
            /\ result' = NoResult
    /\ UNCHANGED <<fs, env_test_command, backup_content, run, events, ran_command>>

\* An invocation with any arguments a fix record can give.
Call ==
    /\ \E p \in Paths \cup {None}, c \in Contents \cup {NoCode} : Invoke(p, c)
    /\ UNCHANGED outer_vars

\* A plausible slip: the overwrite started right after the existence
\* check, without the backup read.
ExistsCheckSkipsBackup ==
    /\ pc = "exists"
    /\ events' = Append(events, "exists")
    /\ IF ~FileExists(fs, file_path)
       THEN Return(FALSE, ErrNotExist)
       ELSE /\ pc' = "overwrite"
            /\ UNCHANGED result
    /\ UNCHANGED <<fs, env_test_command, file_path, new_code, backup_content,
                   run, fs_before, ran_command>>
    /\ UNCHANGED outer_vars

\* Lines 220-223: existence check.
ExistsCheck ==
    /\ pc = "exists"
    /\ events' = Append(events, "exists")
    /\ IF ~FileExists(fs, file_path)
       THEN Return(FALSE, ErrNotExist)
       ELSE /\ pc' = "backup"
            /\ UNCHANGED result
    /\ UNCHANGED <<fs, env_test_command, file_path, new_code, backup_content,
                   run, fs_before, ran_command>>
    /\ UNCHANGED outer_vars

\* Lines 225-236: read the current content into backup_content.
Backup ==
    /\ pc = "backup"
    /\ \E ok \in BOOLEAN :
        IF ok
        THEN /\ backup_content' = ReadText(fs[file_path])
             /\ events' = Append(events, "read")
             /\ pc' = "overwrite"
             /\ UNCHANGED result
        ELSE /\ events' = Append(events, "read_failed")
             /\ Return(FALSE, ErrBackup)
             /\ UNCHANGED backup_content
    /\ UNCHANGED <<fs, env_test_command, file_path, new_code, run, fs_before, ran_command>>
    /\ UNCHANGED outer_vars

\* Lines 239-247: overwrite the file with new_code.  f.write(None) raises
\* TypeError after open(..., "w") has truncated the file.  The handler of
\* a failed overwrite returns without writing the backup back.
Overwrite ==
    /\ pc = "overwrite"
    /\ IF new_code = NoCode
       THEN /\ fs' = [fs EXCEPT ![file_path] = <<>>]
            /\ events' = Append(events, "write_failed")
            /\ Return(FALSE, ErrWrite)
       ELSE \E ok \in BOOLEAN :
            IF ok
            THEN /\ fs' = [fs EXCEPT ![file_path] = OpenWrite(fs[file_path], new_code)]
                 /\ events' = Append(events, "write")
                 /\ pc' = "verify"
                 /\ UNCHANGED result
            ELSE /\ \E left \in FailedWriteLeaves(fs[file_path], new_code) :
                        fs' = [fs EXCEPT ![file_path] = left]
                 /\ events' = Append(events, "write_failed")
                 /\ Return(FALSE, ErrWrite)
    /\ UNCHANGED <<env_test_command, file_path, new_code, backup_content,
                   run, fs_before, ran_command>>
    /\ UNCHANGED outer_vars

\* The ways subprocess.run(test_command, ..., timeout=60) can end.
RunOutcomes ==
    {<<"completed", rc, err>> : rc \in ReturnCodes, err \in Stderrs}
        \cup {<<"timeout">>, <<"error">>}

\* A plausible slip: the exit code tested with >= instead of ==.
TestsPassedAnyCode(r) == r[1] = "completed" /\ r[2] >= 0

\* Line 276: result.returncode == 0
TestsPassed(r) == r[1] = "completed" /\ r[2] = 0

\* Lines 250-261: subprocess.run starts the verification command as a
\* child process and waits for it.
RunTests ==
    /\ pc = "verify"
    /\ ran_command' = Getenv(env_test_command, "pytest")
    /\ events' = Append(events, "run")
    /\ pc' = "running"
    /\ UNCHANGED <<fs, env_test_command, file_path, new_code, backup_content,
                   run, result, fs_before>>
    /\ UNCHANGED outer_vars

\* Lines 263-285, 317-319: subprocess.run returns the completed process,
\* or raises an exception other than TimeoutExpired; the invocation
\* returns success or goes on to restore the backup.  Nothing makes the
\* child process finish: this step may never happen.
TestsComplete ==
    /\ pc = "running"
    /\ \E r \in RunOutcomes \ {<<"timeout">>} :
        /\ run' = r
        /\ IF TestsPassed(r)
           THEN Return(TRUE, None)
           ELSE /\ pc' = "restore"
                /\ UNCHANGED result
    /\ UNCHANGED <<fs, env_test_command, file_path, new_code, backup_content,
                   fs_before, events, ran_command>>
    /\ UNCHANGED outer_vars

\* A plausible slip: subprocess.run called without timeout=60, so that no
\* TimeoutExpired is ever raised.
TestsTimeoutNever ==
    /\ pc = "running"
    /\ FALSE
    /\ UNCHANGED vars

\* Lines 259, 303-305: the child process is still running when the
\* timeout of subprocess.run elapses; subprocess.run kills it and raises
\* TimeoutExpired, and the invocation goes on to restore the backup.
TestsTimeout ==
    /\ pc = "running"
    /\ run' = <<"timeout">>
    /\ pc' = "restore"
    /\ UNCHANGED <<fs, env_test_command, file_path, new_code, backup_content,
                   result, fs_before, events, ran_command>>
    /\ UNCHANGED outer_vars

\* A plausible slip: "result.stderr or None" returned after a failed run.
RestoreErrorOrNone(r, ok) ==
    CASE r[1] = "completed" -> IF ok THEN (IF r[3] = "" THEN None ELSE r[3]) ELSE ErrRevert
      [] r[1] = "timeout" -> ErrTimeout
      [] OTHER -> ErrUnexpected

\* A plausible slip: no handler of its own for TimeoutExpired, so that the
\* timeout lands in the handler of every other exception.
RestoreErrorNoTimeoutHandler(r, ok) ==
    CASE r[1] = "completed" -> IF ok THEN r[3] ELSE ErrRevert
      [] OTHER -> ErrUnexpected

\* The error each restore site returns, given whether its restoring write
\* succeeded: lines 295-301 (nonzero exit), 312-315 (timeout), 326-329
\* (other exception).
RestoreError(r, ok) ==
    CASE r[1] = "completed" -> IF ok THEN r[3] ELSE ErrRevert
      [] r[1] = "timeout" -> ErrTimeout
      [] OTHER -> ErrUnexpected

\* Lines 287-301, 308-315, 322-329: write backup_content back and return
\* the failure.
Restore ==
    /\ pc = "restore"
    /\ \E ok \in BOOLEAN :
        /\ IF ok
           THEN /\ fs' = [fs EXCEPT ![file_path] = OpenWrite(fs[file_path], backup_content)]
                /\ events' = Append(events, "restore")
           ELSE /\ \E left \in FailedWriteLeaves(fs[file_path], backup_content) :
                       fs' = [fs EXCEPT ![file_path] = left]
                /\ events' = Append(events, "restore_failed")
        /\ Return(FALSE, RestoreError(run, ok))
    /\ UNCHANGED <<env_test_command, file_path, new_code, backup_content,
                   run, fs_before, ran_command>>
    /\ UNCHANGED outer_vars

\* main.py lines 264-276: the caller takes the returned pair and goes on
\* to the next fix record; the locals of the invocation are gone.
Returns ==
    /\ pc = "done"
    /\ result # Raised
    /\ pc' = "idle"
    /\ file_path' = None
    /\ new_code' = NoCode
    /\ backup_content' = NoCode
    /\ run' = NotRun
    /\ result' = NoResult
    /\ fs_before' = fs
    /\ events' = <<>>
    /\ ran_command' = None
    /\ UNCHANGED <<fs, env_test_command>>

Collect ==
    /\ Returns
    /\ UNCHANGED outer_vars

\* main.py lines 346-354: an exception that escapes apply_fix_and_verify
\* ends the loop over the fix records and the fix command.
Abort ==
    /\ pc = "done"
    /\ result = Raised
    /\ pc' = "aborted"
    /\ UNCHANGED <<fs, env_test_command, file_path, new_code, backup_content,
                   run, result, fs_before, events, ran_command>>
    /\ UNCHANGED outer_vars

Next ==
    \/ Call
    \/ ExistsCheck
    \/ Backup
    \/ Overwrite
    \/ RunTests
    \/ TestsComplete
    \/ TestsTimeout
    \/ Restore
    \/ Collect
    \/ Abort

Spec == Init /\ [][Next]_vars

\* The invocation is sequential code: each of its steps is taken once it
\* is reached, and the timeout of subprocess.run elapses while the child
\* process is running.  Nothing obliges the child process to finish
\* (TestsComplete) or the caller to go on (Call, Collect, Abort).
FairSpec ==
    /\ Spec
    /\ WF_vars(ExistsCheck)
    /\ WF_vars(Backup)
    /\ WF_vars(Overwrite)
    /\ WF_vars(RunTests)
    /\ WF_vars(TestsTimeout)
    /\ WF_vars(Restore)

\* ------------------------------------------------------ the fix command
\* Orchestrator.handle_fix_command: analyze_and_fix, then one
\* apply_fix_and_verify per record.

\* Line 108 and lines 113-119: response.text.strip(), then the code fences.
StripFences ==
    /\ stage = "strip"
    /\ response_text' = StripFence(Strip(response_text))
    /\ stage' = "find"
    /\ UNCHANGED <<fs, env_test_command, pc, file_path, new_code, backup_content,
                   run, result, fs_before, events, ran_command, response,
                   scan_input, parsed, fixes, fix_index, applied>>
    /\ UNCHANGED <<cmd_vars, exec_vars, push_vars>>

\* Lines 122-125.
FindArray ==
    /\ stage = "find"
    /\ response_text' = TrimBrackets(response_text)
    /\ stage' = "scan"
    /\ UNCHANGED <<fs, env_test_command, pc, file_path, new_code, backup_content,
                   run, result, fs_before, events, ran_command, response,
                   scan_input, parsed, fixes, fix_index, applied>>
    /\ UNCHANGED <<cmd_vars, exec_vars, push_vars>>

\* Lines 129-164.
EscapeNewlines ==
    /\ stage = "scan"
    /\ scan_input' = response_text
    /\ response_text' = Sanitize(response_text)
    /\ stage' = "loads"
    /\ UNCHANGED <<fs, env_test_command, pc, file_path, new_code, backup_content,
                   run, result, fs_before, events, ran_command, response,
                   parsed, fixes, fix_index, applied>>
    /\ UNCHANGED <<cmd_vars, exec_vars, push_vars>>

\* Line 168.
LoadJson ==
    /\ stage = "loads"
    /\ parsed' = JsonLoads(response_text)
    /\ stage' = "decode"
    /\ UNCHANGED <<fs, env_test_command, pc, file_path, new_code, backup_content,
                   run, result, fs_before, events, ran_command, response,
                   response_text, scan_input, fixes, fix_index, applied>>
    /\ UNCHANGED <<cmd_vars, exec_vars, push_vars>>

\* Lines 170-201: analyze_and_fix returns.
ReturnFixes ==
    /\ stage = "decode"
    /\ fixes' = DecodeFixes(parsed)
    /\ stage' = "returned"
    /\ UNCHANGED <<fs, env_test_command, pc, file_path, new_code, backup_content,
                   run, result, fs_before, events, ran_command, response,
                   response_text, scan_input, parsed, fix_index, applied>>
    /\ UNCHANGED <<cmd_vars, exec_vars, push_vars>>

\* main.py lines 236-257: without fixes the command posts that no issue
\* was found and returns success; with fixes the loop over them starts.
CheckFixes ==
    /\ stage = "returned"
    /\ IF fixes = <<>>
       THEN /\ stage' = "finished"
            /\ posted' = Append(posted, "no_issues")
            /\ command_result' = <<TRUE, None>>
            /\ UNCHANGED fix_index
       ELSE /\ stage' = "loop"
            /\ fix_index' = 1
            /\ UNCHANGED <<posted, command_result>>
    /\ UNCHANGED <<fs, env_test_command, pc, file_path, new_code, backup_content,
                   run, result, fs_before, events, ran_command, response,
                   response_text, scan_input, parsed, fixes, applied>>
    /\ UNCHANGED <<dry_run, pr_details, successful_fixes, failed_fixes,
                   failed_before, committed, write_failed, pushed, fix_status>>
    /\ UNCHANGED <<exec_vars, push_vars>>

\* fix.get("file_path"), fix.get("new_code"): None for a missing key
PathOf(val) == IF val = PyNone THEN None ELSE val.v[1]
CodeOf(val) == IF val = PyNone THEN NoCode ELSE val.v

\* main.py lines 259-264: the next record is handed to
\* apply_fix_and_verify.
ApplyFix ==
    /\ stage = "loop"
    /\ fix_index <= Len(fixes)
    /\ Invoke(PathOf(DictGet(fixes[fix_index], <<"file_path">>)),
              CodeOf(DictGet(fixes[fix_index], <<"new_code">>)))
    /\ applied' = Append(applied, fix_index)
    /\ UNCHANGED <<stage, response, response_text, scan_input, parsed, fixes,
                   fix_index>>
    /\ UNCHANGED <<cmd_vars, exec_vars, push_vars>>

\* main.py line 266: if verify_success
Verified(pair) == pair[1]

\* main.py lines 264-276: the pair is collected, the record goes to
\* successful_fixes or to failed_fixes, and the loop goes on.
CollectNext ==
    /\ stage = "loop"
    /\ Returns
    /\ fix_index' = fix_index + 1
    /\ IF Verified(result)
       THEN /\ successful_fixes' = Append(successful_fixes, fixes[fix_index])
            /\ committed' = [committed EXCEPT ![file_path] = new_code]
            /\ UNCHANGED <<failed_fixes, failed_before>>
       ELSE /\ failed_fixes' = Append(failed_fixes,
                    [file |-> file_path, error |-> result[2],
                     fix |-> fixes[fix_index]])
            /\ failed_before' = Append(failed_before, Pre)
            /\ UNCHANGED <<successful_fixes, committed>>
    /\ write_failed' = (write_failed \/ \E i \in DOMAIN events :
                            events[i] \in {"write_failed", "restore_failed"})
    /\ UNCHANGED <<stage, response, response_text, scan_input, parsed, fixes,
                   applied>>
    /\ UNCHANGED <<dry_run, pr_details, posted, pushed, fix_status,
                   command_result>>
    /\ UNCHANGED <<exec_vars, push_vars>>

\* main.py line 259: the loop over the records is over.
LoopEnd ==
    /\ stage = "loop"
    /\ pc = "idle"
    /\ fix_index > Len(fixes)
    /\ stage' = "push"
    /\ UNCHANGED <<fs, env_test_command, pc, file_path, new_code, backup_content,
                   run, result, fs_before, events, ran_command, response,
                   response_text, scan_input, parsed, fixes, fix_index, applied>>
    /\ UNCHANGED <<cmd_vars, exec_vars, push_vars>>

\* A plausible slip: the push guarded by the verified fixes alone.
PushWantedInDryRun(successful, dry) == successful # <<>>

\* main.py line 279: if successful_fixes and not context.dry_run
PushWanted(successful, dry) == successful # <<>> /\ ~dry

\* main.py lines 278-308: with a verified fix and outside dry-run mode the
\* branch is read from the details; with a branch the push is attempted,
\* and after a push that returned the success comment is posted and
\* fix_status set.  An exception of the push is logged and kept in the
\* output.
PushFixes ==
    /\ stage = "push"
    /\ stage' = "report"
    /\ LET pr_branch == Get(Get(pr_details, "head", EmptyDict), "ref", None)
       IN  IF PushWanted(successful_fixes, dry_run) /\ Truthy(pr_branch)
           THEN /\ pushed' = Append(pushed, PushFile(Methods))
                /\ IF PushFile(Methods) = "pushed"
                   THEN /\ posted' = Append(posted, "success")
                        /\ fix_status' = "success"
                   ELSE UNCHANGED <<posted, fix_status>>
           ELSE UNCHANGED <<pushed, posted, fix_status>>
    /\ UNCHANGED <<fs, env_test_command, pc, file_path, new_code, backup_content,
                   run, result, fs_before, events, ran_command, response,
                   response_text, scan_input, parsed, fixes, fix_index, applied>>
    /\ UNCHANGED <<dry_run, pr_details, successful_fixes, failed_fixes,
                   failed_before, committed, write_failed, command_result>>
    /\ UNCHANGED <<exec_vars, push_vars>>

\* main.py lines 310-345: with failed fixes the failure comment is posted
\* and fix_status set; the command fails when no fix was verified and
\* one failed, and succeeds otherwise.
ReportFailures ==
    /\ stage = "report"
    /\ stage' = "finished"
    /\ IF failed_fixes # <<>>
       THEN /\ posted' = Append(posted, "failed_verification")
            /\ fix_status' = "failed_verification"
       ELSE UNCHANGED <<posted, fix_status>>
    /\ command_result' =
          IF successful_fixes = <<>> /\ failed_fixes # <<>>
          THEN <<FALSE, "All fixes failed verification">>
          ELSE <<TRUE, None>>
    /\ UNCHANGED <<fs, env_test_command, pc, file_path, new_code, backup_content,
                   run, result, fs_before, events, ran_command, response,
                   response_text, scan_input, parsed, fixes, fix_index, applied>>
    /\ UNCHANGED <<dry_run, pr_details, successful_fixes, failed_fixes,
                   failed_before, committed, write_failed, pushed>>
    /\ UNCHANGED <<exec_vars, push_vars>>

\* State before analyze_and_fix has looked at the response.
Received(texts) ==
    /\ pc = "idle"
    /\ file_path = None
    /\ new_code = NoCode
    /\ backup_content = NoCode
    /\ run = NotRun
    /\ result = NoResult
    /\ fs_before = fs
    /\ events = <<>>
    /\ ran_command = None
    /\ stage = "strip"
    /\ response \in texts
    /\ response_text = response
    /\ scan_input = <<>>
    /\ parsed = PyNone
    /\ fixes = <<>>
    /\ fix_index = 0
    /\ applied = <<>>
    /\ committed = fs
    /\ NoFixesYet
    /\ NoExecute
    /\ NoPush

\* analyze_and_fix from the response to the returned list.
InitText ==
    /\ fs = [p \in Paths |-> NoFile]
    /\ env_test_command = None
    /\ dry_run = FALSE
    /\ pr_details = WithHead(WithId(FetchedDetails))
    /\ Received(Responses)

NextText ==
    \/ StripFences
    \/ FindArray
    \/ EscapeNewlines
    \/ LoadJson
    \/ ReturnFixes

SpecText == InitText /\ [][NextText]_vars

\* The whole fix command.
InitRun ==
    /\ fs \in RunFiles
    /\ env_test_command \in TestCommands
    /\ dry_run \in BOOLEAN
    /\ pr_details \in ValidDetails
    /\ Received(RunResponses)

NextRun ==
    \/ StripFences
    \/ FindArray
    \/ EscapeNewlines
    \/ LoadJson
    \/ ReturnFixes
    \/ CheckFixes
    \/ ApplyFix
    \/ ExistsCheck
    \/ Backup
    \/ Overwrite
    \/ RunTests
    \/ TestsComplete
    \/ TestsTimeout
    \/ Restore
    \/ CollectNext
    \/ LoopEnd
    \/ PushFixes
    \/ ReportFailures
    \/ Abort

SpecRun == InitRun /\ [][NextRun]_vars

\* The fix command on responses that hold up to MaxFixes records, each a
\* fix of calc.py or a record without file_path.
CommandFixes == {Fix("calc.py", <<"LF">>, <<"n">>), FixNoPath(<<"LF">>)}
CommandResponses ==
    {Dumps(JArr(l), FALSE) :
        l \in UNION {[1..k -> CommandFixes] : k \in 0..MaxFixes}}

InitCommand ==
    /\ fs \in RunFiles
    /\ env_test_command \in TestCommands
    /\ dry_run \in BOOLEAN
    /\ pr_details \in ValidDetails
    /\ Received(CommandResponses)

SpecCommand == InitCommand /\ [][NextRun]_vars

\* ------------------------------------------------- Orchestrator.execute
\* main.py lines 30-36: CommandType
CommandTypes == {"fix", "review", "test", "analyze", "custom"}

\* main.py lines 806-811: the commands execute has a handler for
Handlers == {"fix", "review", "test", "analyze"}

ErrAuth == "Authentication failed"
ErrUnknown == "Unknown command: "
ErrInvalidPr == "Invalid or inaccessible PR"
ErrGithub == "GithubException"

\* ExecutionResult(success, command, output, error)
ExecutionResult(success, cmd, error) ==
    [success |-> success, command |-> cmd, error |-> error]

\* main.py lines 132-150: the ways authenticate can end: the token is
\* valid and the repository readable, verify_token returned False, or an
\* exception was raised (no token, no access to the repository).
AuthOutcomes == {"ok", "invalid_token", "exception"}

\* A plausible slip: execute goes on to the handler whatever authenticate
\* returned.
AuthGateOpen(auth) == TRUE

\* main.py line 797: if not self.authenticate(context): return ...
AuthGate(auth) == auth

\* State in which execute is called on a new Orchestrator.
InitExec ==
    /\ fs \in RunFiles
    /\ env_test_command = None
    /\ pc = "idle"
    /\ file_path = None
    /\ new_code = NoCode
    /\ backup_content = NoCode
    /\ run = NotRun
    /\ result = NoResult
    /\ fs_before = fs
    /\ events = <<>>
    /\ ran_command = None
    /\ NoCommand
    /\ NoPush
    /\ exec_pc = "start"
    /\ command \in CommandTypes
    /\ authenticated = FALSE
    /\ handled = <<>>
    /\ results = <<>>
    /\ returned = <<>>
    /\ written = <<>>
    /\ pr_exists \in BOOLEAN

\* main.py lines 114-150, 797: authenticate
Authenticate ==
    /\ exec_pc = "start"
    /\ \E outcome \in AuthOutcomes : authenticated' = (outcome = "ok")
    /\ exec_pc' = "authenticated"
    /\ UNCHANGED <<command, handled, results, returned, written, pr_exists>>
    /\ UNCHANGED <<fs, env_test_command, pc, file_path, new_code, backup_content,
                   run, result, fs_before, events, ran_command>>
    /\ UNCHANGED <<orch_vars, cmd_vars, push_vars>>

\* main.py lines 797-803: authenticate returned False; execute returns a
\* failure, which it does not append to self.results.
AuthFailed ==
    /\ exec_pc = "authenticated"
    /\ ~AuthGate(authenticated)
    /\ returned' = Append(returned, ExecutionResult(FALSE, command, ErrAuth))
    /\ exec_pc' = "returned"
    /\ UNCHANGED <<command, authenticated, handled, results, written, pr_exists>>
    /\ UNCHANGED <<fs, env_test_command, pc, file_path, new_code, backup_content,
                   run, result, fs_before, events, ran_command>>
    /\ UNCHANGED <<orch_vars, cmd_vars, push_vars>>

\* main.py lines 805-821: the handler of the command is looked up; without
\* one execute returns a failure, which it does not append to
\* self.results; with one the handler is called.
Route ==
    /\ exec_pc = "authenticated"
    /\ AuthGate(authenticated)
    /\ IF command \in Handlers
       THEN /\ handled' = Append(handled, command)
            /\ exec_pc' = "handler"
            /\ UNCHANGED returned
       ELSE /\ returned' = Append(returned,
                                  ExecutionResult(FALSE, command, ErrUnknown))
            /\ exec_pc' = "returned"
            /\ UNCHANGED handled
    /\ UNCHANGED <<command, authenticated, results, written, pr_exists>>
    /\ UNCHANGED <<fs, env_test_command, pc, file_path, new_code, backup_content,
                   run, result, fs_before, events, ran_command>>
    /\ UNCHANGED <<orch_vars, cmd_vars, push_vars>>

\* main.py lines 174-198, 347-355 and github_helper.py lines 193-217:
\* step 1 of handle_fix_command.  fetch_pr_details returns its dict for a
\* pull request that exists and re-raises the GithubException of one
\* that does not, which the handler's except turns into a failure.  The
\* handler posts that the pull request does not exist and returns when
\* the dict is empty or has no true "id"; else it goes on to fetch the
\* diff.
VerifyPr ==
    /\ exec_pc = "handler"
    /\ command = "fix"
    /\ IF pr_exists
       THEN /\ pr_details' = FetchedDetails
            /\ IF DOMAIN pr_details' = {} \/ ~Truthy(Get(pr_details', "id", None))
               THEN /\ posted' = Append(posted, "not_exist")
                    /\ command_result' = <<FALSE, ErrInvalidPr>>
                    /\ exec_pc' = "handled"
               ELSE /\ exec_pc' = "diff"
                    /\ UNCHANGED <<posted, command_result>>
       ELSE /\ command_result' = <<FALSE, ErrGithub>>
            /\ exec_pc' = "handled"
            /\ UNCHANGED <<pr_details, posted>>
    /\ UNCHANGED <<command, authenticated, handled, results, returned, written,
                   pr_exists>>
    /\ UNCHANGED <<fs, env_test_command, pc, file_path, new_code, backup_content,
                   run, result, fs_before, events, ran_command>>
    /\ UNCHANGED <<dry_run, successful_fixes, failed_fixes, failed_before,
                   committed, write_failed, pushed, fix_status>>
    /\ UNCHANGED <<orch_vars, push_vars>>

\* main.py lines 357-576: the handlers of review, test and analyze
\* return a success, after posting their report unless they run dry
\* (lines 411, 489), or the failure their except makes of an exception.
OtherHandler ==
    /\ exec_pc = "handler"
    /\ command # "fix"
    /\ \E ok \in BOOLEAN, report \in BOOLEAN :
          /\ command_result' = <<ok, IF ok THEN None ELSE "error">>
          /\ posted' = IF ok /\ report /\ command # "analyze"
                       THEN Append(posted, "report") ELSE posted
    /\ exec_pc' = "handled"
    /\ UNCHANGED <<command, authenticated, handled, results, returned, written,
                   pr_exists>>
    /\ UNCHANGED <<fs, env_test_command, pc, file_path, new_code, backup_content,
                   run, result, fs_before, events, ran_command>>
    /\ UNCHANGED <<dry_run, pr_details, successful_fixes, failed_fixes,
                   failed_before, committed, write_failed, pushed,
                   fix_status>>
    /\ UNCHANGED <<orch_vars, push_vars>>

\* main.py lines 823-825: the result of the handler is appended to
\* self.results and returned.
AppendResult ==
    /\ exec_pc = "handled"
    /\ LET r == ExecutionResult(command_result[1], command, command_result[2])
       IN  /\ results' = Append(results, r)
           /\ returned' = Append(returned, r)
    /\ exec_pc' = "returned"
    /\ UNCHANGED <<command, authenticated, handled, written, pr_exists>>
    /\ UNCHANGED <<fs, env_test_command, pc, file_path, new_code, backup_content,
                   run, result, fs_before, events, ran_command>>
    /\ UNCHANGED <<orch_vars, cmd_vars, push_vars>>

\* main.py lines 827-846, 912-915: main hands the result of execute to
\* write_output, which stores self.results and the status of that
\* result; a failure to write the file is logged.
WriteOutput ==
    /\ exec_pc = "returned"
    /\ \E ok \in BOOLEAN :
          IF ok
          THEN written' = Append(written,
                 [results |-> results,
                  final_status |-> IF returned[Len(returned)].success
                                   THEN "success" ELSE "failure"])
          ELSE UNCHANGED written
    /\ exec_pc' = "exit"
    /\ UNCHANGED <<command, authenticated, handled, results, returned, pr_exists>>
    /\ UNCHANGED <<fs, env_test_command, pc, file_path, new_code, backup_content,
                   run, result, fs_before, events, ran_command>>
    /\ UNCHANGED <<orch_vars, cmd_vars, push_vars>>

NextExec ==
    \/ Authenticate
    \/ AuthFailed
    \/ Route
    \/ VerifyPr
    \/ OtherHandler
    \/ AppendResult
    \/ WriteOutput

SpecExec == InitExec /\ [][NextExec]_vars

\* --------------------------------------- GitHubAPIWrapper.push_fix_to_pr
\* github_helper.py lines 445-456: the ways subprocess.run(command,
\* check=True) can end: exit code zero; a nonzero exit code, whose
\* CalledProcessError _run_git_command catches; another exception (git
\* not installed, repo_path missing), which it lets through.
GitOutcomes == {"exit 0", "exit 1", "OSError"}

\* _run_git_command raises
GitRaises(outcome) == outcome = "OSError"

\* the files argument of push_fix_to_pr; None and the empty list both
\* stand for all changes (line 509: if files)
FileLists == {<<>>, <<"calc.py">>, <<"calc.py", "util.py">>}

ErrCommit == "Failed to commit changes"
ErrPush == "Failed to push changes"

\* State in which push_fix_to_pr is called.
InitPush ==
    /\ fs \in RunFiles
    /\ env_test_command = None
    /\ pc = "idle"
    /\ file_path = None
    /\ new_code = NoCode
    /\ backup_content = NoCode
    /\ run = NotRun
    /\ result = NoResult
    /\ fs_before = fs
    /\ events = <<>>
    /\ ran_command = None
    /\ NoCommand
    /\ NoExecute
    /\ git_pc = "get_pr"
    /\ files \in FileLists
    /\ add_index = 0
    /\ git_log = <<>>
    /\ push_result = NoResult

\* what no step of push_fix_to_pr changes
PushFrame ==
    /\ UNCHANGED <<fs, env_test_command, pc, file_path, new_code, backup_content,
                   run, result, fs_before, events, ran_command>>
    /\ UNCHANGED <<orch_vars, cmd_vars, exec_vars, files>>

\* One git command: it is logged with its outcome; when
\* _run_git_command raises, the enclosing function returns error, else
\* it goes on at next.
RunGit(name, next, error) ==
    \E outcome \in GitOutcomes :
        /\ git_log' = Append(git_log, <<name, outcome>>)
        /\ IF GitRaises(outcome)
           THEN /\ git_pc' = "done"
                /\ push_result' = <<FALSE, error>>
           ELSE /\ git_pc' = next
                /\ UNCHANGED push_result

\* Lines 586-587: get_pr, pr.head.ref; a GithubException lands in the
\* except of lines 628-634.
GetPr ==
    /\ git_pc = "get_pr"
    /\ \E ok \in BOOLEAN :
          IF ok
          THEN /\ git_pc' = "fetch"
               /\ UNCHANGED push_result
          ELSE /\ git_pc' = "done"
               /\ push_result' = <<FALSE, ErrGithub>>
    /\ UNCHANGED <<add_index, git_log>>
    /\ PushFrame

\* Line 590: git fetch origin
GitFetch ==
    /\ git_pc = "fetch"
    /\ RunGit("fetch", "checkout", "OSError")
    /\ UNCHANGED add_index
    /\ PushFrame

\* Lines 593-596: git checkout branch_name
GitCheckout ==
    /\ git_pc = "checkout"
    /\ RunGit("checkout", "add", "OSError")
    /\ add_index' = 1
    /\ PushFrame

\* Lines 509-516: commit_changes runs git add for each of the files, or
\* git add . without files; an exception makes commit_changes return
\* False (lines 523-525) and push_fix_to_pr return the commit failure
\* (lines 599-604).
GitAdd ==
    /\ git_pc = "add"
    /\ IF files = <<>> \/ add_index >= Len(files)
       THEN RunGit("add", "commit", ErrCommit)
       ELSE RunGit("add", "add", ErrCommit)
    /\ add_index' = add_index + 1
    /\ PushFrame

\* Lines 517-522, 599-604: git commit; commit_changes returns True unless
\* an exception was raised.
GitCommit ==
    /\ git_pc = "commit"
    /\ RunGit("commit", "push", ErrCommit)
    /\ UNCHANGED add_index
    /\ PushFrame

\* Lines 544-554, 607-626: git push; push_branch returns True unless an
\* exception was raised, and push_fix_to_pr then returns success.
GitPush ==
    /\ git_pc = "push"
    /\ \E outcome \in GitOutcomes :
        /\ git_log' = Append(git_log, <<"push", outcome>>)
        /\ push_result' = IF GitRaises(outcome)
                          THEN <<FALSE, ErrPush>> ELSE <<TRUE, None>>
    /\ git_pc' = "done"
    /\ UNCHANGED add_index
    /\ PushFrame

NextPush ==
    \/ GetPr
    \/ GitFetch
    \/ GitCheckout
    \/ GitAdd
    \/ GitCommit
    \/ GitPush

SpecPush == InitPush /\ [][NextPush]_vars

TypeOK ==
    /\ pc \in {"idle", "exists", "backup", "overwrite", "verify", "running",
               "restore", "done", "aborted"}
    /\ \A p \in Paths : fs[p] \in Contents \cup {NoFile}

\* ------------------------------------------------------------ the claims
Returned == pc = "done" /\ result # Raised
Succeeded == Returned /\ result[1] = TRUE
Failed == Returned /\ result[1] = FALSE
OverwriteStarted == \E i \in DOMAIN events : events[i] \in {"write", "write_failed"}
RestoreAttempted == \E i \in DOMAIN events : events[i] \in {"restore", "restore_failed"}
RestoreFailed == \E i \in DOMAIN events : events[i] = "restore_failed"

\* C1 (as claimed): whenever the invocation returns success = False and the
\* returned error is not the report of a failed restore, the target file
\* holds exactly the content it held before the call.
C1_RollbackInvariant ==
    (Failed /\ result[2] # ErrRevert) => fs[file_path] = Pre

\* C2: whenever the invocation returns success = True, the target file
\* holds exactly new_code and the returned error is None.
C2_CommitInvariant ==
    Succeeded => (fs[file_path] = new_code /\ result[2] = None)

\* C2 witness: a successful return on a file that held something else.
C2_Witness ==
    /\ Succeeded
    /\ Len(Pre) > 0
    /\ Pre # new_code

\* C3 (as claimed): every failure return reached once the overwrite step
\* has started comes after an attempt to write the backup back.
C3_FailureAfterOverwriteRestores ==
    (Failed /\ OverwriteStarted) => RestoreAttempted

\* C4 (as claimed): whenever the restoring write fails, whichever restore
\* site it is at, the returned error is the report of the failed restore.
C4_RestoreFailureReported ==
    (Returned /\ RestoreFailed) => result = <<FALSE, ErrRevert>>

\* C5: when file_path does not refer to an existing file, the invocation
\* returns success = False with the "does not exist" error right after the
\* existence check: nothing is read, no file is created or written and the
\* verification command is not run.
C5_NonExistentFile ==
    (pc = "done" /\ file_path # None /\ Pre = NoFile) =>
        /\ result = <<FALSE, "File does not exist: ">>
        /\ events = <<"exists">>
        /\ fs = fs_before
        /\ run = NotRun /\ ran_command = None

\* C5 witness: a returned invocation on a path that does not exist.
C5_Witness ==
    /\ Returned
    /\ file_path # None
    /\ Pre = NoFile
    /\ new_code # NoCode

TimedOut == Returned /\ run = <<"timeout">>

C7_SuccessIffAllStepsPassed ==
    pc = "done" =>
        LET allPassed ==
                /\ Pre # NoFile
                /\ \E i \in DOMAIN events : events[i] = "read"
                /\ \E i \in DOMAIN events : events[i] = "write"
                /\ run # NotRun
                /\ run[1] = "completed"
                /\ run[2] = 0
                /\ ran_command = (IF env_test_command = None THEN "pytest"
                                  ELSE env_test_command)
        IN  /\ allPassed <=> (result # Raised /\ result[1] = TRUE)
            /\ (result # Raised /\ ~allPassed) => result[1] = FALSE

\* C7 witness: a successful return whose command was the default one.
C7_Witness ==
    /\ Succeeded
    /\ env_test_command = None
    /\ ran_command = "pytest"

\* C8: at every return, success is True exactly when the error is None.
C8_OutcomeInvariant ==
    Returned => (result[1] = TRUE <=> result[2] = None)

\* C8 witness: a failed verification whose captured stderr is empty, the
\* failure return whose error comes closest to being absent.
C8_Witness ==
    /\ Failed
    /\ run # NotRun
    /\ run[1] = "completed"
    /\ run[3] = ""
    /\ result[2] = ""

PhaseOrders ==
    {<<"exists">>,
     <<"exists", "read_failed">>,
     <<"exists", "read", "write_failed">>,
     <<"exists", "read", "write", "run">>,
     <<"exists", "read", "write", "run", "restore">>,
     <<"exists", "read", "write", "run", "restore_failed">>}

\* A step taken once the invocation has returned or raised writes no file
\* and runs no command.
QuietAfterReturn ==
    pc \in {"done", "aborted"} =>
        (fs' = fs /\ (ran_command' # ran_command => ran_command' = None))

\* C9: within one invocation the steps occur only in the order existence
\* check, backup read, overwrite, verification, restore: the file is not
\* written before its content was read into the backup, the command is
\* not run before the overwrite completed, and once the invocation has
\* returned no file is written and no command is run.
C9_PhaseOrder ==
    /\ [](\E o \in PhaseOrders : events \in Prefixes(o))
    /\ [](Succeeded => events = <<"exists", "read", "write", "run">>)
    /\ [][QuietAfterReturn]_vars

\* C9 witness: an invocation that went through every phase and rolled back.
C9_Witness ==
    /\ Returned
    /\ events = <<"exists", "read", "write", "run", "restore">>

\* C10 (as claimed): no invocation of apply_fix_and_verify lets an
\* exception escape to its caller, also when the fix record lacks
\* file_path or new_code.
C10_NeverRaises ==
    result # Raised

InProgress == pc \in {"exists", "backup", "overwrite", "verify", "running", "restore"}

\* C11: every invocation of apply_fix_and_verify eventually returns, also
\* when the verification command never terminates: while the child process
\* is running, the timeout leads the invocation to a return.
C11_EventuallyReturns ==
    InProgress ~> pc = "done"

\* C11 witness: an invocation whose command was cut off by the timeout has
\* returned a failure.
C11_Witness ==
    /\ Returned
    /\ run = <<"timeout">>
    /\ result[1] = FALSE

\* The fix command is over: it ended after Step 4 or after the loop, or
\* an exception ended it.
RunOver == stage = "finished" \/ pc = "aborted"

\* C12 (as claimed): in one run of the fix command the records that
\* analyze_and_fix returned are handed to apply_fix_and_verify one at a
\* time, in their order, and each exactly once: at every moment the
\* records applied so far are the first ones of the list in order, an
\* invocation is in progress only for the last of them, and when the
\* command is over every record has been applied.
C12_InOrderEachOnce ==
    /\ applied = [i \in 1..Len(applied) |-> i]
    /\ Len(applied) <= Len(fixes)
    /\ (stage = "loop" /\ pc # "idle" => applied # <<>> /\ applied[Len(applied)] = fix_index)
    /\ (RunOver => Len(applied) = Len(fixes))

\* the characters of a text
Range(s) == {s[i] : i \in 1..Len(s)}

\* The text handed to the character scan is JSON but for line feeds that
\* stand for themselves inside its strings: the strict parser rejects
\* it, and the parser that lets a control character inside a string stand
\* for itself accepts it.
RawNewlines(text) ==
    /\ Range(text) \cap {"CR", "TAB"} = {}
    /\ JsonLoads(text) = JSONDecodeError
    /\ Loads(text, FALSE) # JSONDecodeError

\* C13: newline repair.  When the text handed to the character scan is
\* JSON but for literal line feeds inside its strings, the output of the
\* scan parses, and the value is the one the text stands for: each string
\* has a line feed where the text had a literal one.
C13_NewlineRepair ==
    stage = "decode" /\ RawNewlines(scan_input)
        => parsed = Loads(scan_input, FALSE)

\* C13 witness: a one-record response whose new_code has a literal line
\* feed has been scanned and parsed.
C13_Witness ==
    /\ stage = "decode"
    /\ RawNewlines(scan_input)
    /\ parsed.t = "arr"
    /\ Len(parsed.v) = 1
    /\ parsed.v[1].t = "obj"
    /\ "LF" \in Range(DictGet(parsed.v[1].v, <<"new_code">>).v)

\* C14: the character scan is the identity on valid JSON (which has no
\* literal line feed inside a string; line feeds between the tokens stay).
C14_IdentityOnValid ==
    stage = "loads" /\ JsonLoads(scan_input) # JSONDecodeError
        => response_text = scan_input

\* C14 witness: a valid text with a line feed between its tokens has been
\* scanned.
C14_Witness ==
    /\ stage = "loads"
    /\ JsonLoads(scan_input) # JSONDecodeError
    /\ "LF" \in Range(scan_input)

\* The number of backslashes that stand in a row at the end of the first
\* i characters of text.
TrailingBackslashes(text, i) ==
    LET others == {j \in 1..i : text[j] # BSLASH}
    IN  IF others = {} THEN i
        ELSE i - (CHOOSE j \in others : \A k \in others : k <= j)

\* A character is escaped when an odd number of backslashes stands in a
\* row before it.
Escaped(text, j) == TrailingBackslashes(text, j - 1) % 2 = 1

\* The first i characters of text end inside a string: they hold an odd
\* number of quotes that are not escaped.
InsideString(text, i) ==
    Cardinality({j \in 1..i : text[j] = QUOTE /\ ~Escaped(text, j)}) % 2 = 1

\* C15: backslash-escape preservation.  After every prefix of its input
\* the scan's escape flag is set exactly when the next character is
\* escaped, and its in_string flag exactly when the prefix ends inside a
\* string, where an escaped quote opens or closes nothing and an escaped
\* backslash escapes nothing; and a text without line feeds comes out of
\* the scan unchanged.
C15_EscapePreserved ==
    stage = "loads" =>
        /\ \A i \in 0..Len(scan_input) :
              LET after == Scan(scan_input, 1, i, FALSE, FALSE)
              IN  /\ after.escape = Escaped(scan_input, i + 1)
                  /\ after.in_string = InsideString(scan_input, i)
        /\ ("LF" \notin Range(scan_input) => response_text = scan_input)

\* C15 witness: a string with an escaped quote followed by another
\* character has been scanned.
C15_Witness ==
    /\ stage = "loads"
    /\ scan_input = <<QUOTE, BSLASH, QUOTE, "n", QUOTE>>
    /\ response_text = scan_input

\* The character j of text lies between an opening quote and its closing
\* quote.
InsideClosedString(text, j) ==
    /\ InsideString(text, j - 1)
    /\ \E k \in (j + 1)..Len(text) : text[k] = QUOTE /\ ~Escaped(text, k)

\* C16 (as claimed): for every input, no line feed is left between an
\* opening quote and its closing quote in the scan's output.
C16_NoNewlineInsideString ==
    stage = "loads" =>
        \A j \in 1..Len(response_text) :
            response_text[j] = "LF" => ~InsideClosedString(response_text, j)

\* A fix record: an object with the strings file_path and new_code.
IsFixRecord(val) ==
    /\ val.t = "obj"
    /\ DictGet(val.v, <<"file_path">>).t = "str"
    /\ DictGet(val.v, <<"new_code">>).t = "str"

\* What json.loads returned is not an array of fix records: the text did
\* not parse, or the value is not an array, or an element of it is not a
\* fix record.
Malformed(val) ==
    \/ val.t # "arr"
    \/ \E i \in 1..Len(val.v) : ~IsFixRecord(val.v[i])

AfterAnalysis == stage \in {"returned", "loop", "finished"}

\* C17 (as claimed): a malformed response is recovered locally.  When the
\* scanned text does not parse, or parses to something that is not an
\* array of fix records, analyze_and_fix returns the empty list, and the
\* fix command applies no fix: it starts no invocation, leaves every file
\* as it was and is not ended by an exception.
C17_MalformedRecovered ==
    AfterAnalysis /\ Malformed(parsed) =>
        /\ fixes = <<>>
        /\ stage # "loop"
        /\ applied = <<>>
        /\ pc = "idle"
        /\ fs = fs_before

\* C18 (as claimed): a response that is a valid JSON array, from its
\* opening bracket to its closing bracket and so without a code fence
\* around it, reaches the character scan unchanged, whatever its strings
\* contain.
C18_ValidArrayUnchanged ==
    /\ stage = "scan"
    /\ response # <<>>
    /\ response[1] = "["
    /\ response[Len(response)] = "]"
    /\ JsonLoads(response).t = "arr"
    => response_text = response

\* A string still holds one of the two-character sequences backslash, n
\* and backslash, t.
HasEscape(value) ==
    \E i \in 1..(Len(value) - 1) : value[i] = BSLASH /\ value[i + 1] \in {"n", "t"}

\* C19: in every record that analyze_and_fix returns, new_code holds no
\* backslash, n and no backslash, t any more, and every other field has
\* the key and the value json.loads produced.
C19_UnescapedAndFramed ==
    stage = "returned" =>
        \A i \in 1..Len(fixes) :
            /\ Len(fixes[i]) = Len(parsed.v[i].v)
            /\ \A j \in 1..Len(fixes[i]) :
                  LET stored == fixes[i][j]
                      loaded == parsed.v[i].v[j]
                  IN  /\ stored.k = loaded.k
                      /\ IF loaded.k = <<"new_code">> /\ loaded.v.t = "str"
                         THEN /\ stored.v.t = "str"
                              /\ ~HasEscape(stored.v.v)
                         ELSE stored.v = loaded.v

\* C19 witness: a record whose new_code was loaded with a backslash, t in
\* it and whose issue has a backslash, n has been returned with a tab in
\* new_code.
C19_Witness ==
    /\ stage = "returned"
    /\ Len(fixes) = 1
    /\ DictGet(parsed.v[1].v, <<"new_code">>).v = <<BSLASH, "t">>
    /\ DictGet(fixes[1], <<"new_code">>).v = <<"TAB">>
    /\ DictGet(fixes[1], <<"issue">>).v = <<BSLASH, "n">>

\* C20 (as claimed): when the response is correctly escaped JSON, so that
\* json.loads already yields the intended file content, the new_code of
\* the returned record is exactly the string json.loads decoded, for
\* every content, also one with a backslash followed by n or t.
C20_RoundTrip ==
    /\ stage = "returned"
    /\ JsonLoads(scan_input) # JSONDecodeError
    => \A i \in 1..Len(fixes) :
          DictGet(fixes[i], <<"new_code">>) = DictGet(parsed.v[i].v, <<"new_code">>)

\* The records of the elements of an array that are objects, decoded, in
\* the order of the array.
RECURSIVE DecodedObjects(_)
DecodedObjects(elements) ==
    IF elements = <<>> THEN <<>>
    ELSE (IF Head(elements).t = "obj"
          THEN <<DecodeFix(Head(elements).v)>>
          ELSE <<>>) \o DecodedObjects(Tail(elements))

\* C29 (as claimed): when one element of the parsed array cannot be
\* decoded as a fix record, for instance because it is not an object,
\* analyze_and_fix skips that element and still returns the decoded
\* records of all the other elements, in their order.
C29_UndecodableSkipped ==
    AfterAnalysis /\ parsed.t = "arr" => fixes = DecodedObjects(parsed.v)

\* C30: the writes of one invocation touch only the file named by
\* file_path.  In every step of an invocation the content of every other
\* path is unchanged, and no step, the overwrite and the restore
\* included, creates or removes a path, the target among them.
C30_FrameStep ==
    \A q \in Paths :
        /\ q # file_path => fs'[q] = fs[q]
        /\ FileExists(fs', q) <=> FileExists(fs, q)

C30_Frame == [][C30_FrameStep]_vars

\* C30 witness: the overwrite and the restore have both written the
\* target, which still exists with a content of its own, next to
\* another file that holds what it held.
C30_Witness ==
    /\ pc = "done"
    /\ "write" \in Range(events)
    /\ "restore" \in Range(events)
    /\ file_path = "calc.py"
    /\ fs["calc.py"] = <<"LF">>
    /\ fs["util.py"] = <<"CR">>
    /\ fs_before = fs

CommandOver == stage = "finished"

\* C21 (as claimed): whenever handle_fix_command has posted the failure
\* comment, which says that the failed fixes were not applied and the
\* code was reverted, every file listed as failed holds the content it
\* had immediately before its fix was applied.
C21_FailedFilesReverted ==
    "failed_verification" \in Range(posted) =>
        \A i \in DOMAIN failed_fixes :
            fs[failed_fixes[i].file] = failed_before[i]

\* C22 (as claimed): when the run of the fix command is over and no
\* write of it has failed, every file holds the new_code of the last
\* fix on it that was verified, or its original content when none was:
\* a failed later fix never undoes an earlier committed fix.
C22_LastVerifiedFixStays ==
    CommandOver /\ ~write_failed => \A p \in Paths : fs[p] = committed[p]

\* C24 (as claimed): when at least one fix passed verification and
\* dry_run is false, handle_fix_command pushes the verified fixes to the
\* head branch of the pull request, posts the success comment and sets
\* fix_status to success.
C24_VerifiedFixesPushed ==
    CommandOver /\ successful_fixes # <<>> /\ ~dry_run =>
        /\ "pushed" \in Range(pushed)
        /\ "success" \in Range(posted)
        /\ fix_status = "success"

\* C25: a push is attempted only if at least one fix passed verification
\* and dry_run is false; when every fix failed, or in dry-run mode, no
\* push is attempted.
C25_PushOnlyVerifiedNotDryRun ==
    pushed # <<>> => successful_fixes # <<>> /\ ~dry_run

\* C25 witness: the command is over after a push attempt, with one fix
\* verified and another failed.
C25_Witness ==
    /\ CommandOver
    /\ pushed # <<>>
    /\ successful_fixes # <<>>
    /\ failed_fixes # <<>>

\* In dry-run mode with a verified fix, and after a run in which every
\* fix failed, the command is over without a push attempt.
C25_DryRunReached ==
    /\ CommandOver
    /\ dry_run
    /\ successful_fixes # <<>>
    /\ pushed = <<>>
C25_AllFailedReached ==
    /\ CommandOver
    /\ ~dry_run
    /\ "head" \in DOMAIN pr_details
    /\ successful_fixes = <<>>
    /\ failed_fixes # <<>>
    /\ pushed = <<>>

\* C23 (as claimed): when fetch_pr_details has returned the details of a
\* pull request that exists and is accessible, handle_fix_command goes
\* on to fetch the diff; it returns 'Invalid or inaccessible PR', and
\* posts that the pull request does not exist, only for a pull request
\* that does not exist or cannot be accessed.
C23_ExistingPrAccepted ==
    /\ pr_exists /\ pr_details # EmptyDict => exec_pc = "diff"
    /\ command_result = <<FALSE, ErrInvalidPr>> => ~pr_exists
    /\ "not_exist" \in Range(posted) => ~pr_exists

ExecuteReturned == exec_pc \in {"returned", "exit"}

\* C26: execute authenticates first.  A handler has been invoked only
\* after authenticate returned True; when authenticate returned False no
\* handler has run, nothing was fetched, no comment posted and no file
\* written, and the one result execute returns is the failure
\* 'Authentication failed'.
C26_AuthenticatedFirst ==
    /\ handled # <<>> => authenticated
    /\ ExecuteReturned /\ ~authenticated =>
          /\ handled = <<>>
          /\ pr_details = EmptyDict
          /\ posted = <<>>
          /\ pc = "idle" /\ events = <<>> /\ fs = fs_before
          /\ returned = <<ExecutionResult(FALSE, command, ErrAuth)>>

\* C26 witness: execute has returned the authentication failure of a fix
\* command on a pull request that exists.
C26_Witness ==
    /\ ExecuteReturned
    /\ ~authenticated
    /\ command = "fix"
    /\ pr_exists
    /\ returned # <<>>

\* C27 (as claimed): every ExecutionResult execute has returned has been
\* appended to self.results, so that the results of the document
\* write_output stores hold the result that decides its final_status: a
\* failure is never stored with empty results.
C27_ReturnedResultStored ==
    /\ \A i \in DOMAIN returned : returned[i] \in Range(results)
    /\ \A i \in DOMAIN written :
          written[i].final_status = "failure" => written[i].results # <<>>

\* C28 (as claimed): push_fix_to_pr never runs git push after a failed
\* commit.  When git add or git commit has exited nonzero it returns
\* success = False with 'Failed to commit changes' and runs no push; it
\* returns success = True only when checkout, commit and push have all
\* exited zero.
C28_NoPushAfterFailedCommit ==
    LET NonZero(names) ==
            \E i \in DOMAIN git_log :
                git_log[i][1] \in names /\ git_log[i][2] # "exit 0"
        GitRan(name) == \E i \in DOMAIN git_log : git_log[i][1] = name
    IN  /\ NonZero({"add", "commit"}) => ~GitRan("push")
        /\ git_pc = "done" /\ NonZero({"add", "commit"}) =>
              push_result = <<FALSE, ErrCommit>>
        /\ push_result = <<TRUE, None>> =>
              ~NonZero({"checkout", "add", "commit", "push"})

====
